---- MODULE Spec2Model ----
(***************************************************************************)
(* OSINT Recon Tool (src/src/main.rs): one run of the command-line tool.   *)
(* The run is a single linear async task; the actions below are the        *)
(* stretches of main() between two suspension points (.await).             *)
(***************************************************************************)
EXTENDS Integers, Sequences, FiniteSets, TLC

\* ---------------------------------------------------------------- constants
RETRY_ATTEMPTS == 3
RETRY_DELAY == 5
TOO_MANY_REQUESTS == 429
BAD_REQUEST == 400
EXIT_SUCCESS == 0
EXIT_FAILURE == 1
EXIT_PANIC == 101
Running == -1

\* ------------------------------------------------------------------- inputs
Targets == {"example.com", "1.2.3.4"}
ReconTypes == {"whois", "shodan", "hibp", "WHOIS", "dns"}
StatusCodes == {200, 204, 301, 400, 429, 500}
Bodies == {"[1]", "[ 1 ]", "null", "oops"}
ChatReplies == {"analysis"}

\* --------------------------------------------------------------- Result<T,E>
Ok(v) == [tag |-> "Ok", val |-> v]
Err(e) == [tag |-> "Err", err |-> e]
Pending == [tag |-> "Pending"]
IsOk(r) == r.tag = "Ok"
IsErr(r) == r.tag = "Err"

\* ----------------------------------------------------------------- OsintError
\* HttpRequest wraps a reqwest::Error; status 0 stands for "no status".
HttpRequest(status, msg) == [variant |-> "HttpRequest", status |-> status, msg |-> msg]
InvalidType == [variant |-> "InvalidType", status |-> 0, msg |-> ""]
MissingApiKey(name) == [variant |-> "MissingApiKey", status |-> 0, msg |-> name]
IoError(msg) == [variant |-> "Io", status |-> 0, msg |-> msg]
NoError == [variant |-> "None", status |-> 0, msg |-> ""]

\* ------------------------------------------------------- transport outcomes
\* request.send().await : Err(reqwest::Error) or Ok(response)
TransportError == [sent |-> FALSE, status |-> 0, body |-> ""]
Response(s, b) == [sent |-> TRUE, status |-> s, body |-> b]
SendOutcomes == {TransportError} \cup {Response(s, b) : s \in StatusCodes, b \in Bodies}

\* variant: only 200 counts as success
is_success_Only200(status) == status = 200

\* StatusCode::is_success : 200..=299
is_success(status) == status >= 200 /\ status < 300

\* variant: server errors are retried like 429
MatchSend_RetryServerErrors(o) ==
    IF ~o.sent THEN "transport_error"
    ELSE IF is_success(o.status) THEN "success"
    ELSE IF o.status = TOO_MANY_REQUESTS \/ o.status >= 500 THEN "rate_limited"
    ELSE "api_error"

\* the match of fetch_with_retries on the outcome of send()
MatchSend(o) ==
    IF ~o.sent THEN "transport_error"
    ELSE IF is_success(o.status) THEN "success"
    ELSE IF o.status = TOO_MANY_REQUESTS THEN "rate_limited"
    ELSE "api_error"

\* variant: inclusive range 0..=RETRY_ATTEMPTS
LoopHasNext_Inclusive(attempt) == attempt + 1 <= RETRY_ATTEMPTS

\* the for loop `for attempt in 0..RETRY_ATTEMPTS` : is there a next iteration
LoopHasNext(attempt) == attempt + 1 < RETRY_ATTEMPTS

\* --------------------------------------------------------------- serde_json
\* serde_json::from_str : the Value of a JSON text, or a parse error
from_str(text) ==
    CASE text = "[1]" -> Ok([json |-> "array1"])
      [] text = "[ 1 ]" -> Ok([json |-> "array1"])
      [] text = "null" -> Ok([json |-> "null"])
      [] OTHER -> Err("parse")

\* Value::to_string : compact serialisation
to_string(value) ==
    CASE value.json = "array1" -> "[1]"
      [] value.json = "null" -> "null"

\* the adapters' tail: `fetch_with_retries(..).await?` then from_str().map_err()
ParseError == HttpRequest(BAD_REQUEST, "Failed to parse JSON")
AdapterResult(fetchResult) ==
    IF IsErr(fetchResult) THEN fetchResult
    ELSE IF IsOk(from_str(fetchResult.val)) THEN from_str(fetchResult.val)
    ELSE Err(ParseError)

\* ------------------------------------------------------------------- adapters
\* the head of each adapter: the URL and User-Agent, or an early error
fetch_whois(target) == Ok([url |-> <<"https://api.whois.vu/?q=", target>>, ua |-> "none"])
\* variant: a missing key becomes an empty key (unwrap_or_default)
fetch_shodan_KeyOptional(target, shodanKey) ==
    Ok([url |-> <<"https://api.shodan.io/shodan/host/", target, "?key=">>, ua |-> "none"])
fetch_shodan(target, shodanKey) ==
    IF ~shodanKey THEN Err(MissingApiKey("SHODAN_API_KEY"))
    ELSE Ok([url |-> <<"https://api.shodan.io/shodan/host/", target, "?key=">>, ua |-> "none"])
fetch_hibp(target) ==
    Ok([url |-> <<"https://haveibeenpwned.com/api/v3/breachedaccount/", target>>,
        ua |-> "Rust-OSINT-Tool/1.0"])

\* variant: the default arm falls back to whois
DispatchOn_DefaultWhois(recon_type, target, shodanKey) ==
    CASE recon_type = "shodan" -> fetch_shodan(target, shodanKey)
      [] recon_type = "hibp" -> fetch_hibp(target)
      [] OTHER -> fetch_whois(target)

\* main's `match recon_type.as_str()`
DispatchOn(recon_type, target, shodanKey) ==
    CASE recon_type = "whois" -> fetch_whois(target)
      [] recon_type = "shodan" -> fetch_shodan(target, shodanKey)
      [] recon_type = "hibp" -> fetch_hibp(target)
      [] OTHER -> Err(InvalidType)

\* variant: the key is not required at startup (unwrap_or_default)
OpenAiKeyCheck_Lazy(openaiKey) == Ok("key")

\* env::var("OPENAI_API_KEY") at startup
OpenAiKeyCheck(openaiKey) == IF openaiKey THEN Ok("key") ELSE Err(MissingApiKey("OPENAI_API_KEY"))

\* ---------------------------------------------------------------- file system
Filename(target) == <<target, "_osint_report.json">>
Filenames == {Filename(t) : t \in Targets}
SaveOutcomes == {"ok", "create_failed", "write_failed"}

\* ------------------------------------------------------------------- state
VARIABLES
    pc,          \* position of main()
    target,      \* argv: target
    recon_type,  \* argv: type
    openaiKey,   \* OPENAI_API_KEY is set
    shodanKey,   \* SHODAN_API_KEY is set
    request,     \* url and User-Agent of the current fetch_with_retries call
    attempt,     \* loop variable of fetch_with_retries
    response,    \* the response whose body is being read
    calls,       \* provider requests issued: <<[outcome, at]>>
    sleeps,      \* sleeps taken: <<[after, at]>>, after = number of requests so far
    clock,       \* elapsed time
    fetched,     \* return value of fetch_with_retries
    osint_data,  \* return value of the adapter
    fs,          \* files of the working directory: filename -> <<>> or <<content>>
    created,     \* files this run created or truncated
    chatCalls,   \* summarizer requests issued
    chatResult,  \* outcome of client.chat(): Pending, Ok(text) or Err
    stdout,
    stderr,
    exitCode,
    failure      \* the error that ended the run, NoError if none

vars == <<pc, target, recon_type, openaiKey, shodanKey, request, attempt, response,
          calls, sleeps, clock, fetched, osint_data, fs, created, chatCalls,
          chatResult, stdout, stderr, exitCode, failure>>

inputs == <<target, recon_type, openaiKey, shodanKey>>
fetchVars == <<request, attempt, response, calls, sleeps, clock, fetched>>
fileVars == <<fs, created>>
chatVars == <<chatCalls, chatResult>>

Line(text, err) == [msg |-> text, err |-> err]

Init ==
    /\ pc = "start"
    /\ target \in Targets
    /\ recon_type \in ReconTypes
    /\ openaiKey \in BOOLEAN
    /\ shodanKey \in BOOLEAN
    /\ request = Pending
    /\ attempt = 0
    /\ response = TransportError
    /\ calls = << >>
    /\ sleeps = << >>
    /\ clock = 0
    /\ fetched = Pending
    /\ osint_data = Pending
    /\ fs \in [Filenames -> {<< >>, <<"stale">>}]
    /\ created = {}
    /\ chatCalls = 0
    /\ chatResult = Pending
    /\ stdout = << >>
    /\ stderr = << >>
    /\ exitCode = Running
    /\ failure = NoError

\* variant: the error is printed and main returns Ok(())
MainReturnsErr_ExitZero(e) ==
    /\ pc' = "done"
    /\ stderr' = Append(stderr, Line("Error: ", e))
    /\ exitCode' = EXIT_SUCCESS
    /\ failure' = e

\* main returns Err(e): the runtime prints "Error: {e:?}" and exits with 1
MainReturnsErr(e) ==
    /\ pc' = "done"
    /\ stderr' = Append(stderr, Line("Error: ", e))
    /\ exitCode' = EXIT_FAILURE
    /\ failure' = e

\* fetch_with_retries returns r; the adapter parses and returns to main
FetchReturns(r) ==
    /\ fetched' = r
    /\ osint_data' = AdapterResult(r)
    /\ pc' = "match"

\* main, lines 87-98: arguments and the OPENAI_API_KEY check
Start ==
    /\ pc = "start"
    /\ IF IsErr(OpenAiKeyCheck(openaiKey))
       THEN MainReturnsErr(OpenAiKeyCheck(openaiKey).err)
       ELSE /\ pc' = "dispatch"
            /\ UNCHANGED <<stderr, exitCode, failure>>
    /\ UNCHANGED <<inputs, fetchVars, osint_data, fileVars, chatVars, stdout>>

\* main, lines 100-105, up to the first send() of the adapter
Dispatch ==
    /\ pc = "dispatch"
    /\ LET d == DispatchOn(recon_type, target, shodanKey) IN
       IF IsErr(d)
       THEN /\ osint_data' = d
            /\ pc' = "match"
            /\ UNCHANGED <<request, attempt>>
       ELSE /\ request' = d
            /\ attempt' = 0
            /\ pc' = "send"
            /\ UNCHANGED osint_data
    /\ UNCHANGED <<inputs, response, calls, sleeps, clock, fetched, fileVars, chatVars,
                   stdout, stderr, exitCode, failure>>

\* fetch_with_retries, lines 30-43: one request and the match on its outcome
Send ==
    /\ pc = "send"
    /\ \E o \in SendOutcomes :
        /\ calls' = Append(calls, [outcome |-> o, at |-> clock])
        /\ LET m == MatchSend(o) IN
           CASE m = "success" ->
                  /\ response' = o
                  /\ pc' = "text"
                  /\ UNCHANGED <<fetched, osint_data, stderr>>
             [] m = "rate_limited" ->
                  /\ stderr' = Append(stderr, Line("Rate limited! Retrying", NoError))
                  /\ pc' = "sleep"
                  /\ UNCHANGED <<response, fetched, osint_data>>
             [] m = "api_error" ->
                  /\ FetchReturns(Err(HttpRequest(o.status, "API Error")))
                  /\ UNCHANGED <<response, stderr>>
             [] m = "transport_error" ->
                  /\ FetchReturns(Err(HttpRequest(0, "transport")))
                  /\ UNCHANGED <<response, stderr>>
    /\ UNCHANGED <<inputs, request, attempt, sleeps, clock, fileVars, chatVars,
                   stdout, exitCode, failure>>

\* fetch_with_retries, line 36: response.text().await?
ReadText ==
    /\ pc = "text"
    /\ \E readOk \in BOOLEAN :
         IF readOk THEN FetchReturns(Ok(response.body))
         ELSE FetchReturns(Err(HttpRequest(0, "body")))
    /\ UNCHANGED <<inputs, request, attempt, response, calls, sleeps, clock, fileVars,
                   chatVars, stdout, stderr, exitCode, failure>>

\* the end of a loop iteration: next attempt, or line 45 after the loop
NextAttempt ==
    IF LoopHasNext(attempt)
    THEN /\ attempt' = attempt + 1
         /\ pc' = "send"
         /\ UNCHANGED <<fetched, osint_data>>
    ELSE /\ FetchReturns(Err(HttpRequest(BAD_REQUEST, "Max retries exceeded")))
         /\ UNCHANGED attempt

\* variant: no sleep when no attempt is left
Sleep_SkipLast ==
    /\ pc = "sleep"
    /\ IF LoopHasNext(attempt)
       THEN /\ sleeps' = Append(sleeps, [after |-> Len(calls), at |-> clock])
            /\ clock' = clock + RETRY_DELAY
       ELSE UNCHANGED <<sleeps, clock>>
    /\ NextAttempt
    /\ UNCHANGED <<inputs, request, response, calls, fileVars, chatVars,
                   stdout, stderr, exitCode, failure>>

\* fetch_with_retries, line 39: sleep(RETRY_DELAY).await, then the loop goes on
Sleep ==
    /\ pc = "sleep"
    /\ sleeps' = Append(sleeps, [after |-> Len(calls), at |-> clock])
    /\ clock' = clock + RETRY_DELAY
    /\ NextAttempt
    /\ UNCHANGED <<inputs, request, response, calls, fileVars, chatVars,
                   stdout, stderr, exitCode, failure>>

\* save_report, lines 67-73: File::create, write_all, println
save_report(outcome, data) ==
    LET f == Filename(target) IN
    CASE outcome = "ok" ->
           /\ fs' = [fs EXCEPT ![f] = <<to_string(data)>>]
           /\ created' = created \cup {f}
           /\ stdout' = stdout \o <<Line("Raw OSINT Data", NoError),
                                     Line("Report saved to", NoError)>>
      [] outcome = "write_failed" ->
           /\ fs' = [fs EXCEPT ![f] = <<"">>]
           /\ created' = created \cup {f}
           /\ stdout' = Append(stdout, Line("Raw OSINT Data", NoError))
      [] outcome = "create_failed" ->
           /\ stdout' = Append(stdout, Line("Raw OSINT Data", NoError))
           /\ UNCHANGED <<fs, created>>

\* main, lines 107-110 and 116: the match on osint_data, up to the summarizer call
MatchOsintData ==
    /\ pc = "match"
    /\ IF IsErr(osint_data)
       THEN /\ stderr' = Append(stderr, Line("Error fetching OSINT data", osint_data.err))
            /\ failure' = osint_data.err
            /\ exitCode' = EXIT_SUCCESS
            /\ pc' = "done"
            /\ UNCHANGED <<fileVars, stdout>>
       ELSE \E outcome \in SaveOutcomes :
            /\ save_report(outcome, osint_data.val)
            /\ IF outcome = "ok"
               THEN /\ pc' = "analyze"
                    /\ UNCHANGED <<stderr, exitCode, failure>>
               ELSE MainReturnsErr(IoError(outcome))
    /\ UNCHANGED <<inputs, fetchVars, osint_data, chatVars>>

\* analyze_with_chatgpt, lines 75-83: client.chat(messages).await.unwrap()
\* Panicked stands for the unwinding of unwrap() on Err
Panicked == [tag |-> "Panic"]
analyze_with_chatgpt(chat) == IF IsOk(chat) THEN Ok(chat.val) ELSE Panicked

\* main, lines 111-114 and 118: the summarizer call and the end of the run
Analyze ==
    /\ pc = "analyze"
    /\ chatCalls' = chatCalls + 1
    /\ \E chat \in {Ok(t) : t \in ChatReplies} \cup {Err("chat")} :
        /\ chatResult' = chat
        /\ LET a == analyze_with_chatgpt(chat) IN
           IF a.tag = "Panic"
           THEN /\ stderr' = Append(stderr, Line("thread 'main' panicked", NoError))
                /\ exitCode' = EXIT_PANIC
                /\ failure' = [variant |-> "Analysis", status |-> 0, msg |-> "panic"]
                /\ UNCHANGED stdout
           ELSE IF IsOk(a)
           THEN /\ stdout' = Append(stdout, Line("ChatGPT Analysis", NoError))
                /\ exitCode' = EXIT_SUCCESS
                /\ UNCHANGED <<stderr, failure>>
           ELSE /\ stderr' = Append(stderr, Line("Error analyzing data with ChatGPT", a.err))
                /\ exitCode' = EXIT_SUCCESS
                /\ failure' = a.err
                /\ UNCHANGED stdout
    /\ pc' = "done"
    /\ UNCHANGED <<inputs, fetchVars, osint_data, fileVars>>

Next == Start \/ Dispatch \/ Send \/ ReadText \/ Sleep \/ MatchOsintData \/ Analyze

Spec == Init /\ [][Next]_vars

\* ------------------------------------------------------------------ properties
Returned == fetched.tag # "Pending"
Is2xx(i) == calls[i].outcome.sent /\ calls[i].outcome.status \in 200..299
Is429(i) == calls[i].outcome.sent /\ calls[i].outcome.status = 429
IsOtherStatus(i) == calls[i].outcome.sent /\ ~Is2xx(i) /\ ~Is429(i)
IsTransportFailure(i) == ~calls[i].outcome.sent
Count429 == Cardinality({i \in 1..Len(calls) : Is429(i)})
AllRateLimited == \A i \in 1..Len(calls) : Is429(i)
\* the requests so far are k answers 429 followed by one 2xx answer
RateLimitedThenSuccess ==
    /\ Len(calls) >= 1
    /\ Is2xx(Len(calls))
    /\ \A i \in 1..(Len(calls) - 1) : Is429(i)
LastBody == calls[Len(calls)].outcome.body
AttemptsExceeded == Err(HttpRequest(400, "Max retries exceeded"))
BodyReadFailure == Err(HttpRequest(0, "body"))
WaitBetween(i) ==
    /\ calls[i + 1].at - calls[i].at >= 5
    /\ \E j \in 1..Len(sleeps) : sleeps[j].after = i
NoRequestAfterSuccess == \A i \in 1..Len(calls) : Is2xx(i) => i = Len(calls)
WaitsBetweenRequests == \A i \in 1..(Len(calls) - 1) : WaitBetween(i)
NoNetworkNoReport == calls = << >> /\ chatCalls = 0 /\ created = {}
InStderr(l) == \E i \in 1..Len(stderr) : stderr[i] = l
ReportWritten ==
    /\ Filename(target) \in created
    /\ IsOk(osint_data)
    /\ fs[Filename(target)] = <<to_string(osint_data.val)>>

\* C1 as stated: after k answers 429 (k <= 2) and then a 2xx answer, fetch
\* returns the body of the 2xx answer, k+1 requests were issued, a wait of the
\* fixed delay lies between every two consecutive requests and no request
\* follows the 2xx answer.
C1_AsStated ==
    /\ NoRequestAfterSuccess
    /\ WaitsBetweenRequests
    /\ (Returned /\ AllRateLimited) => Len(calls) > 2
    /\ (Returned /\ RateLimitedThenSuccess) =>
          (Len(calls) <= 3 /\ fetched = Ok(LastBody))

\* C1 amended: after k answers 429 (k <= 2) and then a 2xx answer, fetch
\* returns the body of the 2xx answer when reading the body succeeds and fails
\* with the read error otherwise; in both cases k+1 requests were issued, a wait
\* of the fixed delay lies between every two consecutive requests and no
\* request follows the 2xx answer.
C1_RetryThenSuccess ==
    /\ NoRequestAfterSuccess
    /\ WaitsBetweenRequests
    /\ (Returned /\ AllRateLimited) => Len(calls) > 2
    /\ (Returned /\ RateLimitedThenSuccess) =>
          (Len(calls) <= 3 /\ fetched \in {Ok(LastBody), BodyReadFailure})
    /\ IsOk(fetched) => (RateLimitedThenSuccess /\ fetched = Ok(LastBody))
    /\ pc = "text" => (RateLimitedThenSuccess /\ response = calls[Len(calls)].outcome)

C1_Witness ==
    /\ pc = "done"
    /\ Len(calls) = 3
    /\ RateLimitedThenSuccess
    /\ fetched = Ok(LastBody)
    /\ Len(sleeps) = 2
    /\ calls[2].at = 5 /\ calls[3].at = 10

\* C2: an answer with a non-2xx status other than 429, or a transport failure,
\* makes fetch fail on that attempt with no further request; on the first
\* request that leaves exactly one request recorded and no wait.
C2_TerminalErrors ==
    \A i \in 1..Len(calls) :
        (IsOtherStatus(i) \/ IsTransportFailure(i)) =>
            /\ i = Len(calls)
            /\ pc \in {"match", "done"}
            /\ IsErr(fetched)
            /\ fetched.err.variant = "HttpRequest"
            /\ fetched.err.status = calls[i].outcome.status
            /\ Len(sleeps) = i - 1
            /\ (i = 1 => (Len(calls) = 1 /\ sleeps = << >> /\ clock = 0))

C2_Witness ==
    /\ pc = "done"
    /\ Len(calls) = 1
    /\ calls[1].outcome.sent /\ calls[1].outcome.status = 500
    /\ fetched = Err(HttpRequest(500, "API Error"))
    /\ sleeps = << >>

\* C3: when every request is answered 429, fetch fails with the
\* attempts-exceeded error after exactly 3 requests; no fetch issues more than
\* 3 requests.
C3_AttemptBudget ==
    /\ Len(calls) <= 3
    /\ (Returned /\ AllRateLimited) => (Len(calls) = 3 /\ fetched = AttemptsExceeded)
    /\ (AllRateLimited /\ Len(calls) = 3 /\ pc # "sleep") => fetched = AttemptsExceeded
    /\ fetched = AttemptsExceeded => (AllRateLimited /\ Len(calls) = 3)

C3_Witness ==
    /\ pc = "done"
    /\ Len(calls) = 3
    /\ AllRateLimited
    /\ fetched = AttemptsExceeded

\* C4: after a successful lookup, if the summarizer call fails, the report file
\* has been written, the run ends with exit code 0 and a warning is on
\* standard error.
C4_SummarizerFailureTolerated ==
    (pc = "done" /\ IsOk(osint_data) /\ IsErr(chatResult)) =>
        /\ ReportWritten
        /\ exitCode = EXIT_SUCCESS
        /\ \E i \in 1..Len(stderr) : stderr[i].msg = "Error analyzing data with ChatGPT"

\* the errors fetch_with_retries returns for network failures (lines 36, 41, 42, 45)
NetworkErrors ==
    {HttpRequest(s, "API Error") : s \in StatusCodes}
        \cup {HttpRequest(0, "transport"), HttpRequest(0, "body"),
              HttpRequest(BAD_REQUEST, "Max retries exceeded")}

\* C5: an adapter call whose fetch succeeded but whose body is not valid JSON
\* ends with an error of another kind than every error of a network failure.
C5_ParseErrorDistinct ==
    (IsOk(fetched) /\ IsErr(osint_data)) =>
        \A e \in NetworkErrors : osint_data.err.variant # e.variant

\* C6 as stated: every run ends with exit code 0, whichever error occurred.
C6_AsStated == pc = "done" => exitCode = EXIT_SUCCESS

LookupFailure ==
    \/ failure.variant \in {"InvalidType", "HttpRequest"}
    \/ failure = MissingApiKey("SHODAN_API_KEY")
StartupOrWriteFailure ==
    \/ failure = MissingApiKey("OPENAI_API_KEY")
    \/ failure.variant = "Io"

\* C6 amended: a run whose lookup failed (InvalidLookupKind, MissingCredential
\* of SHODAN_API_KEY, RequestFailure, ResponseParseFailure) ends with exit code
\* 0; a run that lacks OPENAI_API_KEY or cannot write the report ends with exit
\* code 1; in each case the error is printed to standard error.
C6_ExitCodes ==
    pc = "done" =>
        /\ LookupFailure =>
              (exitCode = 0 /\ InStderr(Line("Error fetching OSINT data", failure)))
        /\ StartupOrWriteFailure =>
              (exitCode = 1 /\ InStderr(Line("Error: ", failure)))
        /\ failure = NoError => exitCode = 0

C6_Witness ==
    /\ pc = "done"
    /\ failure.variant = "Io"
    /\ exitCode = 1
    /\ calls # << >>

\* C7: a shodan run without SHODAN_API_KEY fails with MissingCredential, issues
\* no network request, writes no report and does not call the summarizer.
C7_ShodanKeyMissing ==
    (recon_type = "shodan" /\ ~shodanKey) =>
        /\ NoNetworkNoReport
        /\ pc \in {"start", "dispatch", "match", "done"}
        /\ pc = "match" => osint_data = Err(MissingApiKey("SHODAN_API_KEY"))
        /\ pc = "done" => failure.variant = "MissingApiKey"
        /\ (pc = "done" /\ openaiKey) => failure = MissingApiKey("SHODAN_API_KEY")

C7_Witness ==
    /\ pc = "done"
    /\ recon_type = "shodan" /\ ~shodanKey /\ openaiKey
    /\ failure = MissingApiKey("SHODAN_API_KEY")
    /\ NoNetworkNoReport

\* C8: for a lookup kind other than whois, shodan and hibp the dispatch fails
\* with InvalidLookupKind and the run issues no network request and writes no
\* report.
C8_InvalidKind ==
    recon_type \notin {"whois", "shodan", "hibp"} =>
        /\ NoNetworkNoReport
        /\ pc \in {"start", "dispatch", "match", "done"}
        /\ pc = "match" => osint_data = Err(InvalidType)
        /\ (pc = "done" /\ openaiKey) => failure = InvalidType

C8_Witness ==
    /\ pc = "done"
    /\ recon_type = "WHOIS"
    /\ failure = InvalidType
    /\ NoNetworkNoReport

\* C9: without OPENAI_API_KEY the run aborts at startup: no provider request,
\* no report write and no summarizer request happens.
C9_OpenAiKeyMissing ==
    ~openaiKey =>
        /\ NoNetworkNoReport
        /\ pc \in {"start", "done"}
        /\ pc = "done" => failure = MissingApiKey("OPENAI_API_KEY")

C9_Witness ==
    /\ pc = "done"
    /\ ~openaiKey
    /\ recon_type = "whois"
    /\ failure = MissingApiKey("OPENAI_API_KEY")
    /\ NoNetworkNoReport

\* C10: within one fetch the number of waits equals the number of 429 answers:
\* a wait follows every 429, also the one that uses up the last attempt, so the
\* attempts-exceeded failure comes after a third wait that no request follows.
C10_WaitPerRateLimit ==
    /\ pc # "sleep" => Len(sleeps) = Count429
    /\ pc = "sleep" => (Len(sleeps) = Count429 - 1 /\ Is429(Len(calls)))
    /\ \A j \in 1..Len(sleeps) : sleeps[j].after = j /\ Is429(j)
    /\ clock = 5 * Len(sleeps)
    /\ fetched = AttemptsExceeded =>
          (Len(sleeps) = 3 /\ sleeps[3].after = Len(calls) /\ sleeps[3].at >= calls[3].at)

C10_Witness ==
    /\ fetched = AttemptsExceeded
    /\ Len(sleeps) = 3
    /\ Len(calls) = 3
    /\ clock = 15
====
